---- MODULE Spec2Model ----
(***************************************************************************)
(* Model of final_convert.py: the delimiter-balanced scan of               *)
(* extract_event_blocks, parse_chain_event and the driver convert_handler. *)
(*                                                                         *)
(* A text is a sequence of tokens.  A token is either one character        *)
(* ( ) { } " \ ; , space, "x" (any other character) or one of the fixed    *)
(* strings the program searches for (the two call patterns, the field      *)
(* names, the EventData variants, the old and new signatures).  Offsets    *)
(* are token offsets, 0-based and half-open as in Python.  Scanning a      *)
(* fixed string feeds its characters to the per-character step one by one. *)
(* Every token counts as one offset: where convert_handler uses offsets    *)
(* that no longer fit the text, the model's window is displaced by tokens, *)
(* the program's by characters.                                            *)
(*                                                                         *)
(* SpecScan runs extract_event_blocks on every short text over the scan    *)
(* alphabet; Spec runs convert_handler, twice, on files assembled from     *)
(* call sites, closers and signatures.                                     *)
(***************************************************************************)
EXTENDS Integers, Sequences, FiniteSets, TLC

\* ---------------------------------------------------------------- bounds
MaxLen == 4
MaxSegs == 3

\* ---------------------------------------------------------------- tokens
LP == "("
RP == ")"
LB == "{"
RB == "}"
QUOTE == "\""
BSLASH == "\\"
SEMI == ";"
COMMA == ","
WS == " "
TAB == "\t"
NL == "\n"
X == "x"

CTX == "ctx.data_mut().record_event("
ACT == "actor_component.actor_store.record_event("
CED == "ChainEventData"
NCTX == "ctx.data_mut().record_handler_event("
NACT == "actor_component.actor_store.record_handler_event("
ET == "event_type:"
DATA == "data:"
TS == "timestamp:"
DESC == "description:"
HF == "http-framework"
OLDSIG_SETUP == "fn setup_host_functions(&mut self, actor_component: &mut ActorComponent) -> Result<()>"
NEWSIG_SETUP == "fn setup_host_functions(&mut self, actor_component: &mut ActorComponent<E>) -> Result<()>"
OLDSIG_EXPORT == "fn add_export_functions(&self, actor_instance: &mut ActorInstance) -> Result<()>"
NEWSIG_EXPORT == "fn add_export_functions(&self, actor_instance: &mut ActorInstance<E>) -> Result<()>"

patterns == <<CTX, ACT>>

Whitespace == {WS, TAB, NL}

SingleChars == {LP, RP, LB, RB, QUOTE, BSLASH, SEMI, COMMA, WS, TAB, NL, X}

\* The characters of a token, as the scan loop sees them (letters and
\* punctuation other than the delimiters are all "x").
Chars(tok) ==
    CASE tok \in SingleChars -> <<tok>>
      [] tok \in {CTX, NCTX} -> <<X, LP, RP, X, LP>>
      [] tok \in {ACT, NACT} -> <<X, LP>>
      [] tok \in {OLDSIG_SETUP, NEWSIG_SETUP, OLDSIG_EXPORT, NEWSIG_EXPORT}
            -> <<X, LP, X, RP, X, LP, RP, X>>
      [] OTHER -> <<X>>

\* ------------------------------------------------------- Python helpers
Min(S) == CHOOSE m \in S : \A n \in S : m <= n

Clamp(s, i) == IF i > Len(s) THEN Len(s) ELSE i

\* s[a:b]
Slice(s, a, b) == SubSeq(s, Clamp(s, a) + 1, Clamp(s, b))

\* s[i], for 0 <= i < len(s)
At(s, i) == s[i + 1]

\* ---------------------------------------------------------- scan state
ScanState == [brace_count : Int, paren_count : Int,
              in_string : BOOLEAN, escape_next : BOOLEAN]

InitScanState ==
    [brace_count |-> 0, paren_count |-> 1,
     in_string |-> FALSE, escape_next |-> FALSE]

\* Variants of the loop body with one branch changed.
\* '(' is not counted.
ScanChar_NoNesting(st, char) ==
    IF st.escape_next THEN [st EXCEPT !.escape_next = FALSE]
    ELSE IF char = BSLASH THEN [st EXCEPT !.escape_next = TRUE]
    ELSE IF char = QUOTE /\ ~st.in_string THEN [st EXCEPT !.in_string = TRUE]
    ELSE IF char = QUOTE /\ st.in_string THEN [st EXCEPT !.in_string = FALSE]
    ELSE IF ~st.in_string THEN
        IF char = LB THEN [st EXCEPT !.brace_count = @ + 1]
        ELSE IF char = RB THEN [st EXCEPT !.brace_count = @ - 1]
        ELSE IF char = RP THEN [st EXCEPT !.paren_count = @ - 1]
        ELSE st
    ELSE st

\* Delimiters are counted inside string literals too.
ScanChar_StringBlind(st, char) ==
    IF st.escape_next THEN [st EXCEPT !.escape_next = FALSE]
    ELSE IF char = BSLASH THEN [st EXCEPT !.escape_next = TRUE]
    ELSE IF char = QUOTE /\ ~st.in_string THEN [st EXCEPT !.in_string = TRUE]
    ELSE IF char = QUOTE /\ st.in_string THEN [st EXCEPT !.in_string = FALSE]
    ELSE IF char = LB THEN [st EXCEPT !.brace_count = @ + 1]
    ELSE IF char = RB THEN [st EXCEPT !.brace_count = @ - 1]
    ELSE IF char = LP THEN [st EXCEPT !.paren_count = @ + 1]
    ELSE IF char = RP THEN [st EXCEPT !.paren_count = @ - 1]
    ELSE st

\* The backslash is an ordinary character.
ScanChar_NoEscape(st, char) ==
    IF char = QUOTE /\ ~st.in_string THEN [st EXCEPT !.in_string = TRUE]
    ELSE IF char = QUOTE /\ st.in_string THEN [st EXCEPT !.in_string = FALSE]
    ELSE IF ~st.in_string THEN
        IF char = LB THEN [st EXCEPT !.brace_count = @ + 1]
        ELSE IF char = RB THEN [st EXCEPT !.brace_count = @ - 1]
        ELSE IF char = LP THEN [st EXCEPT !.paren_count = @ + 1]
        ELSE IF char = RP THEN [st EXCEPT !.paren_count = @ - 1]
        ELSE st
    ELSE st

\* One iteration of the scan loop body on one character.
ScanChar(st, char) ==
    IF st.escape_next THEN [st EXCEPT !.escape_next = FALSE]
    ELSE IF char = BSLASH THEN [st EXCEPT !.escape_next = TRUE]
    ELSE IF char = QUOTE /\ ~st.in_string THEN [st EXCEPT !.in_string = TRUE]
    ELSE IF char = QUOTE /\ st.in_string THEN [st EXCEPT !.in_string = FALSE]
    ELSE IF ~st.in_string THEN
        IF char = LB THEN [st EXCEPT !.brace_count = @ + 1]
        ELSE IF char = RB THEN [st EXCEPT !.brace_count = @ - 1]
        ELSE IF char = LP THEN [st EXCEPT !.paren_count = @ + 1]
        ELSE IF char = RP THEN [st EXCEPT !.paren_count = @ - 1]
        ELSE st
    ELSE st

\* Variant: the loop also waits for the braces to balance.
LoopCond_BraceGated(text, p, st) ==
    p < Len(text) /\ (st.paren_count > 0 \/ st.brace_count # 0)

\* The loop condition of the scan.
LoopCond(text, p, st) == p < Len(text) /\ st.paren_count > 0

\* The loop over the characters of one token.
RECURSIVE ScanChars(_, _)
ScanChars(st, cs) ==
    IF cs = <<>> \/ ~(st.paren_count > 0) THEN st
    ELSE ScanChars(ScanChar(st, Head(cs)), Tail(cs))

ScanToken(st, tok) == ScanChars(st, Chars(tok))

\* "Find the semicolon": skip whitespace from offset p.
RECURSIVE SkipSpace(_, _)
SkipSpace(text, p) ==
    IF p < Len(text) /\ At(text, p) \in Whitespace
    THEN SkipSpace(text, p + 1) ELSE p

\* Variants: the end of the text counts as a terminator; any character
\* counts as a terminator.
HasSemicolon_OrEnd(text, q) == q >= Len(text) \/ At(text, q) = SEMI

HasSemicolon_Any(text, q) == q < Len(text)

\* The test that decides whether a block is recorded, at the offset q
\* reached after the whitespace.
HasSemicolon(text, q) == q < Len(text) /\ At(text, q) = SEMI

\* ------------------------------------------------------------- inputs
ScanAlphabet == {LP, RP, LB, RB, QUOTE, BSLASH, SEMI, WS, X}

RECURSIVE SeqsUpTo(_, _)
SeqsUpTo(S, n) ==
    IF n = 0 THEN {<<>>}
    ELSE LET R == SeqsUpTo(S, n - 1)
         IN R \cup {Append(r, c) : r \in {q \in R : Len(q) = n - 1}, c \in S}

CallOpen == <<CTX, CED, WS>>

\* f(a, b, "x)y");   g(h(1), i(2));   f("a\"b)");   f(a, b   f(a, b) +
ExStringParen == <<X, COMMA, WS, X, COMMA, WS, QUOTE, X, RP, X, QUOTE, RP, SEMI>>
ExNested == <<X, LP, X, RP, COMMA, WS, X, LP, X, RP, RP, SEMI>>
ExEscapedQuote == <<QUOTE, X, BSLASH, QUOTE, X, RP, QUOTE, RP, SEMI>>
ExUnterminated == <<X, COMMA, WS, X>>
ExMalformedTail == <<X, COMMA, WS, X, RP, WS, X>>

Examples == {ExStringParen, ExNested, ExEscapedQuote, ExUnterminated, ExMalformedTail}

ScanInputs == {CallOpen \o t : t \in SeqsUpTo(ScanAlphabet, MaxLen) \cup Examples}

\* -------------------------------------------------------------- state
VARIABLES
    file,              \* the handler file on disk
    content,           \* convert_handler: content
    original_content,  \* convert_handler: original_content
    blocks,            \* extract_event_blocks: blocks, <<start, end>> pairs
    pc,                \* position in the program
    pat,               \* index of the pattern of the outer loop
    cursor,            \* offset from which finditer continues
    start,             \* match.start() of the current match
    pos,               \* scan position
    scan,              \* brace_count, paren_count, in_string, escape_next
    ridx,              \* index into blocks of the next block to replace
    result,            \* return value of convert_handler
    run,               \* which run of the script this is
    first_out          \* the file as the first run left it

vars == <<file, content, original_content, blocks, pc, pat, cursor, start,
          pos, scan, ridx, result, run, first_out>>

brace_count == scan.brace_count
paren_count == scan.paren_count
in_string == scan.in_string
escape_next == scan.escape_next

\* State at the call extract_event_blocks(content).
InitScan ==
    /\ content \in ScanInputs
    /\ file = content
    /\ original_content = content
    /\ blocks = <<>>
    /\ pc = "match"
    /\ pat = 1
    /\ cursor = 0
    /\ start = 0
    /\ pos = 0
    /\ scan = InitScanState
    /\ ridx = 0
    /\ result = FALSE
    /\ run = 1
    /\ first_out = <<>>

\* ------------------------------------------------ extract_event_blocks
\* Offsets at or after c where the current pattern matches.
MatchesFrom(text, p, c) == {i \in c..(Len(text) - 1) : At(text, i) = patterns[p]}

\* content[pos:pos+15] == 'ChainEventData '
IsChainEventData(text, p) ==
    p + 1 < Len(text) /\ At(text, p) = CED /\ At(text, p + 1) = WS

\* The two for loops: take the next match of the current pattern, or move
\* to the next pattern, or return.
NextMatch ==
    /\ pc = "match"
    /\ LET M == MatchesFrom(content, pat, cursor) IN
       IF M = {} THEN
           /\ IF pat < Len(patterns)
              THEN pat' = pat + 1 /\ cursor' = 0 /\ pc' = pc /\ ridx' = ridx
              ELSE pc' = "replace" /\ ridx' = Len(blocks)
                   /\ UNCHANGED <<pat, cursor>>
           /\ UNCHANGED <<start, pos, scan>>
       ELSE
           LET m == Min(M) IN
           /\ start' = m
           /\ pos' = m + 1
           /\ cursor' = m + 1
           /\ IF IsChainEventData(content, m + 1)
              THEN pc' = "scan" /\ scan' = InitScanState
              ELSE pc' = pc /\ scan' = scan
           /\ UNCHANGED <<pat, ridx>>
    /\ UNCHANGED <<file, content, original_content, blocks, result, run, first_out>>

\* One iteration of the scan loop.
ScanStep ==
    /\ pc = "scan"
    /\ LoopCond(content, pos, scan)
    /\ scan' = ScanToken(scan, At(content, pos))
    /\ pos' = pos + 1
    /\ UNCHANGED <<file, content, original_content, blocks, pc, pat, cursor,
                   start, ridx, result, run, first_out>>

\* The loop has ended: skip whitespace, record the block if a ';' follows.
FindSemicolon ==
    /\ pc = "scan"
    /\ ~LoopCond(content, pos, scan)
    /\ LET q == SkipSpace(content, pos) IN
       IF HasSemicolon(content, q)
       THEN pos' = q + 1 /\ blocks' = Append(blocks, <<start, q + 1>>)
       ELSE pos' = q /\ blocks' = blocks
    /\ pc' = "match"
    /\ UNCHANGED <<file, content, original_content, pat, cursor, start, scan,
                   ridx, result, run, first_out>>

NextScan == NextMatch \/ ScanStep \/ FindSemicolon

SpecScan == InitScan /\ [][NextScan]_vars
\* --------------------------------------------------- parse_chain_event
EVENT_HTTP == "EventData::Http"
EVENT_MESSAGE == "EventData::Message"
EVENT_PROCESS == "EventData::Process"
EVENT_RANDOM == "EventData::Random"
EVENT_STORE == "EventData::Store"
EVENT_SUPERVISOR == "EventData::Supervisor"

\* data_patterns: the variant searched for and the new type written.
data_patterns ==
    << <<EVENT_HTTP, "HttpEventData::">>,
       <<EVENT_MESSAGE, "MessageEventData::">>,
       <<EVENT_PROCESS, "ProcessEventData::">>,
       <<EVENT_RANDOM, "RandomEventData::">>,
       <<EVENT_STORE, "StoreEventData::">>,
       <<EVENT_SUPERVISOR, "SupervisorEventData::">> >>

HTTP_FRAMEWORK_TYPE == "HttpFrameworkEventData::"

None == [ok |-> FALSE]
Some(g) == [ok |-> TRUE, group |-> g]

\* str.strip()
RECURSIVE LStrip(_)
LStrip(s) == IF s # <<>> /\ Head(s) \in Whitespace THEN LStrip(Tail(s)) ELSE s
RECURSIVE RStrip(_)
RStrip(s) ==
    IF s # <<>> /\ s[Len(s)] \in Whitespace
    THEN RStrip(SubSeq(s, 1, Len(s) - 1)) ELSE s
Strip(s) == RStrip(LStrip(s))

\* In the regular-expression operators below positions are 1-based indices
\* into the block text.
\* \s* from index i: the index of the first token that is not whitespace.
RECURSIVE SkipWs(_, _)
SkipWs(s, i) ==
    IF i <= Len(s) /\ s[i] \in Whitespace THEN SkipWs(s, i + 1) ELSE i

Is(s, i, tok) == i >= 1 /\ i <= Len(s) /\ s[i] = tok

\* ,\s*data:
EventTypeTail(s, k) == Is(s, k, COMMA) /\ Is(s, SkipWs(s, k + 1), DATA)

\* \),\s*timestamp:
DataTail(s, k) ==
    Is(s, k, RP) /\ Is(s, k + 1, COMMA) /\ Is(s, SkipWs(s, k + 2), TS)

\* \s*\}\s*\)\s*;?\s*$
DescriptionTail(s, k) ==
    LET b == SkipWs(s, k)
        p == SkipWs(s, b + 1)
        e == SkipWs(s, p + 1)
    IN /\ Is(s, b, RB)
       /\ Is(s, p, RP)
       /\ \/ e > Len(s)
          \/ Is(s, e, SEMI) /\ SkipWs(s, e + 1) > Len(s)

\* The part of a pattern after its group, for the pattern named by tail.
TailMatches(tail, s, k) ==
    CASE tail = ET -> EventTypeTail(s, k)
      [] tail = DESC -> DescriptionTail(s, k)
      [] OTHER -> DataTail(s, k)

\* (.+?) followed by the tail, the group starting at index g: the
\* shortest non-empty group.
LazyGroup(s, g, tail) ==
    LET J == {j \in g..Len(s) : TailMatches(tail, s, j + 1)}
    IN IF J = {} THEN None ELSE Some(SubSeq(s, g, Min(J)))

\* \s*(.+?) followed by the tail, right after index i: \s* is greedy
\* and gives whitespace back to the group only when nothing else matches.
SpaceLazyGroup(s, i, tail) ==
    LET g == SkipWs(s, i + 1)
        m == LazyGroup(s, g, tail)
    IN IF m.ok THEN m
       ELSE IF g > i + 1 /\ TailMatches(tail, s, g) THEN Some(<<s[g - 1]>>)
       ELSE None

\* re.search(r'event_type:\s*(.+?),\s*data:', text, re.DOTALL)
EventTypeSearch(s) ==
    LET I == {i \in 1..Len(s) : s[i] = ET /\ SpaceLazyGroup(s, i, ET).ok}
    IN IF I = {} THEN None ELSE SpaceLazyGroup(s, Min(I), ET)

\* re.search(r'description:\s*(.+?)\s*\}\s*\)\s*;?\s*$', text, re.DOTALL)
DescriptionSearch(s) ==
    LET I == {i \in 1..Len(s) : s[i] = DESC /\ SpaceLazyGroup(s, i, DESC).ok}
    IN IF I = {} THEN None ELSE SpaceLazyGroup(s, Min(I), DESC)

\* re.search(r'EventData::K\((.+?)\),\s*timestamp:', text, re.DOTALL)
DataSearch(s, kind) ==
    LET I == {i \in 1..Len(s) :
                 s[i] = kind /\ Is(s, i + 1, LP) /\ LazyGroup(s, i + 2, TS).ok}
    IN IF I = {} THEN None ELSE LazyGroup(s, Min(I) + 2, TS)

Contains(s, tok) == \E i \in 1..Len(s) : s[i] = tok

\* The loop over data_patterns: the first variant that matches.
DataMatch(s) ==
    LET K == {k \in 1..Len(data_patterns) : DataSearch(s, data_patterns[k][1]).ok}
    IN IF K = {} THEN None
       ELSE LET k == Min(K) IN
            [ok |-> TRUE,
             group |-> Strip(DataSearch(s, data_patterns[k][1]).group),
             new_type |-> IF data_patterns[k][1] = EVENT_HTTP
                          THEN IF Contains(s, HF) THEN HTTP_FRAMEWORK_TYPE
                               ELSE data_patterns[k][2]
                          ELSE data_patterns[k][2]]

parse_chain_event(text) ==
    LET et == EventTypeSearch(text)
        de == DescriptionSearch(text)
        da == DataMatch(text)
    IN IF ~et.ok \/ ~de.ok \/ ~da.ok THEN None
       ELSE IF da.group = <<>> THEN None
       ELSE [ok |-> TRUE,
             prefix |-> IF text # <<>> /\ text[1] \in {CTX, NCTX} THEN NCTX ELSE NACT,
             event_type |-> Strip(et.group),
             event_data |-> da.group,
             description |-> Strip(de.group),
             new_type |-> da.new_type]

\* The replacement f-string.
Replacement(parsed) ==
    <<parsed.prefix>> \o parsed.event_type \o <<COMMA, WS>>
        \o <<parsed.new_type>> \o parsed.event_data \o <<COMMA, WS>>
        \o parsed.description \o <<RP, SEMI>>

\* ------------------------------------------------------ convert_handler
\* The two re.sub calls on the method signatures.
UpdateSignature(tok) ==
    IF tok = OLDSIG_SETUP THEN NEWSIG_SETUP
    ELSE IF tok = OLDSIG_EXPORT THEN NEWSIG_EXPORT
    ELSE tok

UpdateSignatures(text) == [i \in 1..Len(text) |-> UpdateSignature(text[i])]

\* The order in which the replacement loop visits the blocks: the block
\* visited at step r (r counts down from len(blocks)).
BlockAt(bs, r) == bs[r]

\* content[:start] + replacement + content[end:]
Splice(text, s, e, replacement) ==
    Slice(text, 0, s) \o replacement \o Slice(text, e, Len(text))

\* Segments the input files are assembled from.
VALID_CTX == <<CTX, CED, WS, LB, ET, X, COMMA, DATA, EVENT_MESSAGE, LP, X, RP,
               COMMA, TS, X, COMMA, DESC, X, RB, RP, SEMI>>
VALID_ACT == <<ACT, CED, WS, LB, ET, X, COMMA, DATA, EVENT_HTTP, LP, X, RP,
               COMMA, TS, X, COMMA, DESC, QUOTE, HF, QUOTE, RB, RP, SEMI>>
Segments == {VALID_CTX, VALID_ACT, CallOpen, <<RP, SEMI>>, <<RP>>, <<X>>,
             <<QUOTE>>, <<OLDSIG_SETUP>>, <<OLDSIG_EXPORT>>}

RECURSIVE Concat(_)
Concat(ss) == IF ss = <<>> THEN <<>> ELSE Head(ss) \o Concat(Tail(ss))

ConvInputs == {Concat(ss) : ss \in SeqsUpTo(Segments, MaxSegs)}

\* State before the script is run on a handler file.
Init ==
    /\ file \in ConvInputs
    /\ content = <<>>
    /\ original_content = <<>>
    /\ blocks = <<>>
    /\ pc = "read"
    /\ pat = 1
    /\ cursor = 0
    /\ start = 0
    /\ pos = 0
    /\ scan = InitScanState
    /\ ridx = 0
    /\ result = FALSE
    /\ run = 1
    /\ first_out = <<>>

\* Read the file and call extract_event_blocks.
ReadFile ==
    /\ pc = "read"
    /\ content' = file
    /\ original_content' = file
    /\ blocks' = <<>>
    /\ pat' = 1
    /\ cursor' = 0
    /\ pc' = "match"
    /\ UNCHANGED <<file, start, pos, scan, ridx, result, run, first_out>>

\* One iteration of "for start, end in reversed(blocks)".
ReplaceBlock ==
    /\ pc = "replace"
    /\ ridx >= 1
    /\ LET b == BlockAt(blocks, ridx)
           parsed == parse_chain_event(Slice(content, b[1], b[2]))
       IN content' = IF parsed.ok
                     THEN Splice(content, b[1], b[2], Replacement(parsed))
                     ELSE content
    /\ ridx' = ridx - 1
    /\ UNCHANGED <<file, original_content, blocks, pc, pat, cursor, start, pos,
                   scan, result, run, first_out>>

\* The loop is over: update the method signatures.
UpdateMethodSignatures ==
    /\ pc = "replace"
    /\ ridx = 0
    /\ content' = UpdateSignatures(content)
    /\ pc' = "write"
    /\ UNCHANGED <<file, original_content, blocks, pat, cursor, start, pos,
                   scan, ridx, result, run, first_out>>

\* Write the file back if the content changed.
WriteBack ==
    /\ pc = "write"
    /\ IF content # original_content
       THEN file' = content /\ result' = TRUE
       ELSE file' = file /\ result' = FALSE
    /\ pc' = "done"
    /\ UNCHANGED <<content, original_content, blocks, pat, cursor, start, pos,
                   scan, ridx, run, first_out>>

\* The script is run a second time on the file the first run left.
SecondRun ==
    /\ pc = "done"
    /\ run = 1
    /\ run' = 2
    /\ first_out' = file
    /\ pc' = "read"
    /\ UNCHANGED <<file, content, original_content, blocks, pat, cursor, start,
                   pos, scan, ridx, result>>

Next ==
    \/ ReadFile
    \/ NextMatch
    \/ ScanStep
    \/ FindSemicolon
    \/ ReplaceBlock
    \/ UpdateMethodSignatures
    \/ WriteBack
    \/ SecondRun

Spec == Init /\ [][Next]_vars

\* ------------------------------------------- reference for the claims
\* The lexical structure of a scanned text t (the tokens after the call's
\* opening parenthesis), stated position by position, 1-based.

\* Token k follows an escape marker that is not itself escaped.
RECURSIVE RefEscaped(_, _)
RefEscaped(t, k) == k > 1 /\ t[k - 1] = BSLASH /\ ~RefEscaped(t, k - 1)

\* Token k is a quote that opens or closes a string literal.
RefQuote(t, k) == t[k] = QUOTE /\ ~RefEscaped(t, k)

\* Token k lies inside a string literal: an odd number of string quotes
\* precede it.
RECURSIVE RefInside(_, _)
RefInside(t, k) == k > 1 /\ (RefInside(t, k - 1) # RefQuote(t, k - 1))

\* What token k adds to the parenthesis depth.
RefDelta(t, k) ==
    IF RefInside(t, k) THEN 0
    ELSE IF t[k] \in SingleChars THEN
        IF RefEscaped(t, k) \/ t[k] = BSLASH THEN 0
        ELSE IF t[k] = LP THEN 1
        ELSE IF t[k] = RP THEN -1
        ELSE 0
    ELSE IF t[k] \in {CTX, ACT, NCTX, NACT} THEN 1
    ELSE 0

\* The first k at or after position k at which the parenthesis depth,
\* d before token k, is 0 after token k; 0 if there is none.
RECURSIVE RefFirstClose(_, _, _)
RefFirstClose(t, k, d) ==
    IF k > Len(t) THEN 0
    ELSE LET e == d + RefDelta(t, k)
         IN IF e = 0 THEN k ELSE RefFirstClose(t, k + 1, e)

\* The outcome of the extraction for the call site at offset m of text:
\* "unterminated", "malformed", or the end offset.
RefOutcome(text, m) ==
    LET t == Slice(text, m + 1, Len(text))
        k == RefFirstClose(t, 1, 1)
    IN IF k = 0 THEN [kind |-> "unterminated", end |-> 0]
       ELSE LET c == m + 1 + k
                Q == {q \in c..(Len(text) - 1) : At(text, q) \notin Whitespace}
            IN IF Q # {} /\ At(text, Min(Q)) = SEMI
               THEN [kind |-> "end", end |-> Min(Q) + 1]
               ELSE [kind |-> "malformed", end |-> 0]

\* The offsets of the call sites extract_event_blocks scans.
CallSites(text) ==
    {m \in 0..(Len(text) - 1) :
        At(text, m) \in {CTX, ACT} /\ IsChainEventData(text, m + 1)}

BlockSet == {blocks[i] : i \in 1..Len(blocks)}
BlockStarts == {blocks[i][1] : i \in 1..Len(blocks)}

Extracted == pc \in {"replace", "write", "done"}

\* --------------------------------------------------------------- claims

C2_StringInert ==
    /\ [][pc = "scan" /\ in_string
            => paren_count' = paren_count /\ brace_count' = brace_count]_vars
    /\ [](pc = "replace" /\ content = CallOpen \o ExStringParen
            => blocks = << <<0, Len(content)>> >>)

C2_Witness ==
    /\ pc = "scan"
    /\ in_string
    /\ ~escape_next
    /\ pos < Len(content)
    /\ At(content, pos) \in {LP, RP, LB, RB}
    /\ content = CallOpen \o ExStringParen

\* C3: inside a string literal a backslash escapes the next character: that
\* character neither ends the string nor changes a depth, and for
\* f("a\"b)"); the block ends right after the final ';'.
C3_EscapedQuote ==
    /\ [][pc = "scan" /\ pos < Len(content) /\ paren_count > 0 /\ in_string
            /\ ~escape_next /\ At(content, pos) = BSLASH
            => escape_next' /\ in_string']_vars
    /\ [][pc = "scan" /\ pos < Len(content) /\ paren_count > 0 /\ in_string
            /\ escape_next
            => /\ in_string' /\ ~escape_next'
               /\ paren_count' = paren_count
               /\ brace_count' = brace_count]_vars
    /\ [](pc = "replace" /\ content = CallOpen \o ExEscapedQuote
            => blocks = << <<0, Len(content)>> >>)

C3_Witness ==
    /\ pc = "scan"
    /\ in_string
    /\ escape_next
    /\ pos < Len(content)
    /\ At(content, pos) = QUOTE
    /\ content = CallOpen \o ExEscapedQuote

\* C4: a backslash sets escape_next only when in_string is true, so outside
\* a string literal the character after a backslash is processed as usual.
C4_EscapeOnlyInString ==
    pc = "scan" /\ escape_next => in_string

\* C5: a call site whose scan exhausts the input before the parenthesis
\* depth returns to 0 gets no block, and convert_handler rewrites nothing
\* for it: a file whose call sites are all of this kind is left as it was
\* (but for the method signatures).
C5_Unterminated ==
    /\ [][pc = "scan" /\ pc' = "match" /\ paren_count > 0
            => pos = Len(content) /\ blocks' = blocks]_vars
    /\ [](Extracted =>
            \A m \in CallSites(original_content) :
                RefOutcome(original_content, m).kind = "unterminated"
                    => m \notin BlockStarts)
    /\ [](pc = "done"
            /\ (\A m \in CallSites(original_content) :
                    RefOutcome(original_content, m).kind = "unterminated")
            => /\ file = UpdateSignatures(original_content)
               /\ result = (file # original_content))

C5_Witness ==
    /\ pc = "done"
    /\ run = 1
    /\ CallSites(original_content) # {}
    /\ \A m \in CallSites(original_content) :
           RefOutcome(original_content, m).kind = "unterminated"
    /\ file = original_content
    /\ ~result

\* C6: a call site whose parenthesis depth returns to 0 but whose next
\* character that is not whitespace is not ';' (or is missing) gets no
\* block, and convert_handler rewrites nothing for it: a file whose call
\* sites are all of this kind is left as it was (but for the method
\* signatures).
C6_MalformedTail ==
    /\ [][pc = "scan" /\ pc' = "match" /\ paren_count = 0
            /\ (\A q \in pos..(Len(content) - 1) :
                    At(content, q) = SEMI
                        => \E r \in pos..(q - 1) : At(content, r) \notin Whitespace)
            => blocks' = blocks]_vars
    /\ [](Extracted =>
            \A m \in CallSites(original_content) :
                RefOutcome(original_content, m).kind = "malformed"
                    => m \notin BlockStarts)
    /\ [](pc = "done"
            /\ (\A m \in CallSites(original_content) :
                    RefOutcome(original_content, m).kind = "malformed")
            => /\ file = UpdateSignatures(original_content)
               /\ result = (file # original_content))

C6_Witness ==
    /\ pc = "done"
    /\ run = 1
    /\ CallSites(original_content) # {}
    /\ \A m \in CallSites(original_content) :
           RefOutcome(original_content, m).kind = "malformed"
    /\ file = original_content
    /\ ~result

\* C7: a second run of the script on the file the first run wrote changes
\* nothing and does not rewrite the file.
C7_Idempotent ==
    pc = "done" /\ run = 2 => file = first_out /\ ~result

\* C8: paren_count is 1 when the scan starts and never negative; the loop
\* takes a step only while paren_count > 0 and text remains, and takes no
\* step once paren_count is 0 or the text is exhausted; paren_count is 0
\* only right after a ')' outside a string literal; brace_count plays no
\* part: with paren_count 0 and a ';' next the block is recorded whatever
\* brace_count is.
C8_ScanInvariant ==
    /\ [](pc = "scan" => paren_count >= 0)
    /\ [](pc = "scan" /\ paren_count = 0
            => pos > start + 1 /\ At(content, pos - 1) = RP /\ ~in_string)
    /\ [][pc = "match" /\ pc' = "scan"
            => paren_count' = 1 /\ brace_count' = 0 /\ pos' = start' + 1]_vars
    /\ [][pc = "scan" /\ pc' = "scan"
            => paren_count > 0 /\ pos < Len(content) /\ pos' = pos + 1]_vars
    /\ [][pc = "scan" /\ (paren_count = 0 \/ pos >= Len(content))
            => pc' = "match"]_vars
    /\ [][pc = "scan" /\ paren_count = 0 /\ pos < Len(content)
            /\ At(content, pos) = SEMI
            => blocks' = Append(blocks, <<start, pos + 1>>)]_vars

C8_Witness ==
    /\ pc = "replace"
    /\ blocks # <<>>
    /\ brace_count < 0
    /\ paren_count = 0

\* C9: the blocks are replaced in strictly decreasing order of start
\* offset, and when a block is about to be replaced the text at its offsets
\* is still the text it had in the original content.
C9_EndToStart ==
    pc = "replace" /\ ridx >= 1 =>
        /\ \A i \in 1..(Len(blocks) - 1) : blocks[i][1] < blocks[i + 1][1]
        /\ Slice(content, blocks[ridx][1], blocks[ridx][2])
              = Slice(original_content, blocks[ridx][1], blocks[ridx][2])

\* C10: the recorded blocks are pairwise disjoint.
C10_Disjoint ==
    \A i, j \in 1..Len(blocks) :
        i # j => blocks[i][2] <= blocks[j][1] \/ blocks[j][2] <= blocks[i][1]

====
